---------------------------- MODULE Spec2Model ----------------------------
(***************************************************************************)
(* A model of pre-processing.py: the MovieLens-1M download / parse /       *)
(* encode / join / split / persist script.                                 *)
(*                                                                         *)
(* Three state machines share this module:                                 *)
(*   Spec       the __main__ pipeline seen from the filesystem: which of   *)
(*              the five output files exist, in what condition, and which  *)
(*              of them the current run wrote;                             *)
(*   SpecHook   DLProgress.hook, the urlretrieve report hook;              *)
(*   SpecUsers, SpecMovies, SpecJoin                                       *)
(*              load_data followed by the split and the dump of data.p,    *)
(*              on the tables themselves; the three differ only in the     *)
(*              archive contents Init draws.                               *)
(***************************************************************************)
EXTENDS Integers, Sequences, FiniteSets, TLC

VARIABLES
    \* ---- the pipeline seen from the filesystem
    fs,             \* condition of each output file under ./data
    dirExists,      \* whether ./data exists
    pc,             \* position of the current run in __main__
    written,        \* files created or overwritten by the current run
    ret,            \* value returned by download_ml_1m in the current run
    failedAt,       \* stage at which the current run raised, or "none"
    run,            \* number of runs started
    \* ---- DLProgress
    last_block,     \* DLProgress.last_block
    total,          \* tqdm.total
    updated,        \* sum of the increments passed to tqdm.update
    hist,           \* the hook calls made so far, with the increment of each
    \* ---- load_data and the split
    archive,        \* the three tables stored in the zip archive
    lpc,            \* position in load_data / __main__
    users, movies, ratings,
    age_map, genre_int_map, word_int_map,
    data, features, targets,
    parts,          \* what train_test_split returned
    data_p          \* the tuple pickled into data.p

mainVars == <<fs, dirExists, pc, written, ret, failedAt, run>>
hookVars == <<last_block, total, updated, hist>>
loadVars == <<archive, lpc, users, movies, ratings, age_map, genre_int_map,
              word_int_map, data, features, targets, parts, data_p>>
vars == <<mainVars, hookVars, loadVars>>

(***************************************************************************)
(* Bounds of the model.                                                    *)
(***************************************************************************)
MaxRuns == 3
MaxCalls == 3
MaxBlock == 3
MaxUsers == 2
MaxMovies == 2
MaxRatings == 3
MaxOver == 1

None == "none"

(***************************************************************************)
(* Values the variables of the machines not under study keep.             *)
(***************************************************************************)
MainIdle ==
    /\ fs = [f \in {"ml-1m.zip", "meta.p", "users.p", "movies.p", "data.p"} |-> "absent"]
    /\ dirExists = FALSE
    /\ pc = "off"
    /\ written = {}
    /\ ret = None
    /\ failedAt = None
    /\ run = 0

HookIdle ==
    /\ last_block = 0
    /\ total = None
    /\ updated = 0
    /\ hist = <<>>

LoadIdle ==
    /\ archive = None
    /\ lpc = "off"
    /\ users = None /\ movies = None /\ ratings = None
    /\ age_map = None /\ genre_int_map = None /\ word_int_map = None
    /\ data = None /\ features = None /\ targets = None
    /\ parts = None
    /\ data_p = None

(***************************************************************************)
(*                    DLProgress.hook (lines 16-33)                        *)
(***************************************************************************)
BlockSizes == {1, 2}
TotalSizes == {-1, 6}

\* hook without line 33: last_block is never advanced.
HookStaleBlock(block_num, block_size, total_size) ==
    /\ Len(hist) < MaxCalls
    /\ total' = total_size
    /\ updated' = updated + (block_num - last_block) * block_size
    /\ last_block' = last_block
    /\ hist' = Append(hist, [block_num |-> block_num, block_size |-> block_size,
                             total_size |-> total_size,
                             inc |-> (block_num - last_block) * block_size])

\* self.total = total_size; self.update((block_num - self.last_block) * block_size);
\* self.last_block = block_num.  tqdm.update(n) adds n to the bar's counter.
hook(block_num, block_size, total_size) ==
    /\ Len(hist) < MaxCalls
    /\ total' = total_size
    /\ updated' = updated + (block_num - last_block) * block_size
    /\ last_block' = block_num
    /\ hist' = Append(hist, [block_num |-> block_num, block_size |-> block_size,
                             total_size |-> total_size,
                             inc |-> (block_num - last_block) * block_size])

HookCall ==
    /\ \E block_num \in 0..MaxBlock, block_size \in BlockSizes, total_size \in TotalSizes :
          hook(block_num, block_size, total_size)
    /\ UNCHANGED <<mainVars, loadVars>>

InitHook == HookIdle /\ MainIdle /\ LoadIdle
NextHook == HookCall
SpecHook == InitHook /\ [][NextHook]_vars

\* The calls so far used one block size and non-decreasing block numbers.
HookRegular ==
    /\ \A i \in 1..Len(hist) : hist[i].block_size = hist[1].block_size
    /\ \A i \in 1..(Len(hist) - 1) : hist[i].block_num <= hist[i + 1].block_num

\* C10: after any sequence of hook calls with a constant block size and
\* non-decreasing block numbers, the increments passed to update sum to
\* (latest block number) * (block size), last_block is the latest block number,
\* total is the latest total_size, and a call repeating the previous block
\* number passed an increment of 0.
C10_HookTelescopes ==
    (Len(hist) > 0 /\ HookRegular) =>
        LET latest == hist[Len(hist)] IN
        /\ updated = latest.block_num * latest.block_size
        /\ last_block = latest.block_num
        /\ total = latest.total_size
        /\ \A i \in 2..Len(hist) :
              hist[i].block_num = hist[i - 1].block_num => hist[i].inc = 0

\* Three regular calls, one of them repeating the block number before it.
C10_Witness ==
    /\ Len(hist) >= 3
    /\ HookRegular
    /\ hist[Len(hist)].block_num >= 2
    /\ hist[Len(hist)].block_size = 2
    /\ \E i \in 2..Len(hist) : hist[i].block_num = hist[i - 1].block_num
    /\ \E i \in 2..Len(hist) : hist[i].block_num > hist[i - 1].block_num

(***************************************************************************)
(*          The pipeline seen from the filesystem (lines 36-65, 162-178)   *)
(*                                                                         *)
(* ml-1m.zip is "absent", "valid" (its MD5 is hash_code) or "corrupt" (any *)
(* other content, a partial download included).  A pickle file is          *)
(* "absent", "partial" (opened with 'wb', so created or truncated, but the *)
(* dump did not finish) or "complete".                                     *)
(***************************************************************************)
Zip == "ml-1m.zip"
Pickles == {"meta.p", "users.p", "movies.p", "data.p"}
Files == {Zip} \cup Pickles

\* The stages of __main__ in program order, and the stage each file belongs to.
StageNo(s) ==
    CASE s = "download" -> 1
      [] s = "hash"     -> 2
      [] s = "load"     -> 3
      [] s = "meta.p"   -> 4
      [] s = "users.p"  -> 5
      [] s = "movies.p" -> 6
      [] s = "split"    -> 7
      [] s = "data.p"   -> 8

StageOfFile(f) == IF f = Zip THEN StageNo("download") ELSE StageNo(f)

\* An uncaught exception at stage s: the interpreter exits.
Raise(s) ==
    /\ pc' = "aborted"
    /\ failedAt' = s

\* A new run of the script over the filesystem the earlier runs left.
StartRun ==
    /\ pc \in {"idle", "done", "aborted"}
    /\ run < MaxRuns
    /\ run' = run + 1
    /\ pc' = "makedirs"
    /\ written' = {}
    /\ ret' = None
    /\ failedAt' = None
    /\ UNCHANGED <<fs, dirExists, hookVars, loadVars>>

\* lines 45-46: if not os.path.exists(save_path): os.makedirs(save_path)
MakeDirs ==
    /\ pc = "makedirs"
    /\ \/ /\ dirExists
          /\ pc' = "exists"
          /\ UNCHANGED <<dirExists, failedAt>>
       \/ /\ ~dirExists
          /\ dirExists' = TRUE
          /\ pc' = "exists"
          /\ UNCHANGED failedAt
       \/ /\ ~dirExists                       \* OSError from makedirs
          /\ Raise("download")
          /\ UNCHANGED dirExists
    /\ UNCHANGED <<fs, written, ret, run, hookVars, loadVars>>

\* lines 48-52: the archive is downloaded only when no file has its name.
CheckExists ==
    /\ pc = "exists"
    /\ pc' = IF fs[Zip] # "absent" THEN "return" ELSE "urlretrieve"
    /\ UNCHANGED <<fs, dirExists, written, ret, failedAt, run, hookVars, loadVars>>

\* lines 53-57: urlretrieve(url, save_pathname, pbar.hook).  It either fails
\* before it opens the target, or writes the target and then returns, or
\* writes the target and raises: after a transfer cut short, or after every
\* byte the server sent was written when the response had announced more
\* (the bytes on disk may then be the whole archive).  What it leaves is
\* never removed.
UrlRetrieve ==
    /\ pc = "urlretrieve"
    /\ \/ /\ Raise("download")                \* no connection: nothing written
          /\ UNCHANGED <<fs, written>>
       \/ /\ \E content \in {"valid", "corrupt"} :   \* ContentTooShortError
                fs' = [fs EXCEPT ![Zip] = content]
          /\ written' = written \cup {Zip}
          /\ Raise("download")
       \/ /\ \E content \in {"valid", "corrupt"} :
                fs' = [fs EXCEPT ![Zip] = content]
          /\ written' = written \cup {Zip}
          /\ pc' = "md5"
          /\ UNCHANGED failedAt
    /\ UNCHANGED <<dirExists, ret, run, hookVars, loadVars>>

\* The hash check replaced by a warning: the download is accepted as it is.
HashCheckWarnOnly ==
    /\ pc = "md5"
    /\ pc' = "return"
    /\ UNCHANGED <<fs, dirExists, written, ret, failedAt, run, hookVars, loadVars>>

\* lines 60-63: assert md5(file) == hash_code, reached only after a download.
HashCheck ==
    /\ pc = "md5"
    /\ \/ /\ fs[Zip] = "valid"
          /\ pc' = "return"
          /\ UNCHANGED failedAt
       \/ /\ fs[Zip] # "valid"
          /\ Raise("hash")
    /\ UNCHANGED <<fs, dirExists, written, ret, run, hookVars, loadVars>>

\* line 65 and line 163: return save_pathname; dataset_zip = ...
ReturnPath ==
    /\ pc = "return"
    /\ ret' = Zip
    /\ pc' = "load_data"
    /\ UNCHANGED <<fs, dirExists, written, failedAt, run, hookVars, loadVars>>

\* line 164: load_data(dataset_zip) returns, or raises (a bad zip file, a
\* missing entry, a title without a year, ...).  It writes no file.
LoadData ==
    /\ pc = "load_data"
    /\ \/ /\ pc' = "open:meta.p"
          /\ UNCHANGED failedAt
       \/ Raise("load")
    /\ UNCHANGED <<fs, dirExists, written, ret, run, hookVars, loadVars>>

NextAfter(f) ==
    CASE f = "meta.p"   -> "open:users.p"
      [] f = "users.p"  -> "open:movies.p"
      [] f = "movies.p" -> "split"
      [] f = "data.p"   -> "done"

\* lines 166, 169, 172, 176: open(f, 'wb') creates or truncates f, or raises.
OpenFile(f) ==
    /\ pc = "open:" \o f
    /\ \/ /\ fs' = [fs EXCEPT ![f] = "partial"]
          /\ written' = written \cup {f}
          /\ pc' = "dump:" \o f
          /\ UNCHANGED failedAt
       \/ /\ Raise(f)
          /\ UNCHANGED <<fs, written>>
    /\ UNCHANGED <<dirExists, ret, run, hookVars, loadVars>>

\* A dump whose exception is swallowed: the run goes on past the partial file.
DumpFileSwallow(f) ==
    /\ pc = "dump:" \o f
    /\ \/ fs' = [fs EXCEPT ![f] = "complete"]
       \/ UNCHANGED fs
    /\ pc' = NextAfter(f)
    /\ UNCHANGED <<dirExists, written, ret, failedAt, run, hookVars, loadVars>>

\* lines 167, 170, 173, 177: pickle.dump(obj, file) inside the with block:
\* the file is completed and closed, or the dump raises and the file stays
\* as far as it was written.
DumpFile(f) ==
    /\ pc = "dump:" \o f
    /\ \/ /\ fs' = [fs EXCEPT ![f] = "complete"]
          /\ pc' = NextAfter(f)
          /\ UNCHANGED failedAt
       \/ /\ Raise(f)
          /\ UNCHANGED fs
    /\ UNCHANGED <<dirExists, written, ret, run, hookVars, loadVars>>

\* line 175: train_test_split returns, or raises (an empty train set).
SplitStep ==
    /\ pc = "split"
    /\ \/ /\ pc' = "open:data.p"
          /\ UNCHANGED failedAt
       \/ Raise("split")
    /\ UNCHANGED <<fs, dirExists, written, ret, run, hookVars, loadVars>>

WriteMeta == OpenFile("meta.p") \/ DumpFile("meta.p")
WriteUsers == OpenFile("users.p") \/ DumpFile("users.p")
WriteMovies == OpenFile("movies.p") \/ DumpFile("movies.p")
WriteData == OpenFile("data.p") \/ DumpFile("data.p")

\* Every filesystem a first run can start from.
Init ==
    /\ HookIdle /\ LoadIdle
    /\ dirExists \in BOOLEAN
    /\ fs \in [Files -> {"absent", "valid", "corrupt", "complete"}]
    /\ fs[Zip] \in {"absent", "valid", "corrupt"}
    /\ \A f \in Pickles : fs[f] \in {"absent", "complete"}
    /\ ~dirExists => \A f \in Files : fs[f] = "absent"
    /\ pc = "idle"
    /\ written = {}
    /\ ret = None
    /\ failedAt = None
    /\ run = 0

Next ==
    \/ StartRun
    \/ MakeDirs
    \/ CheckExists
    \/ UrlRetrieve
    \/ HashCheck
    \/ ReturnPath
    \/ LoadData
    \/ WriteMeta
    \/ WriteUsers
    \/ WriteMovies
    \/ SplitStep
    \/ WriteData

Spec == Init /\ [][Next]_vars

Terminal == pc \in {"done", "aborted"}

\* C1: whenever download_ml_1m has returned a path, the file at that path
\* is a validated copy of the archive (its MD5 is the expected hash).
C1_ReturnedArchiveIsValid ==
    ret = Zip => fs[Zip] = "valid"

\* C2: once the run has downloaded the archive afresh and the hash of what
\* it wrote differs from the expected one, then past the hash check
\* download_ml_1m has raised (in urlretrieve itself or on the assert): no
\* path is returned, the run is over, and the run wrote none of meta.p,
\* users.p, movies.p, data.p.
C2_HashMismatchAborts ==
    (Zip \in written /\ fs[Zip] # "valid" /\ pc # "md5") =>
        /\ pc = "aborted"
        /\ failedAt \in {"download", "hash"}
        /\ ret = None
        /\ written \cap Pickles = {}

\* A second or later run downloaded a corrupt archive and stopped on the assert.
C2_Witness ==
    /\ pc = "aborted"
    /\ failedAt = "hash"
    /\ run >= 2
    /\ Zip \in written
    /\ fs[Zip] = "corrupt"

\* All five output files are there, the four pickles written whole by this run.
AllFiveWritten ==
    /\ fs[Zip] # "absent"
    /\ \A f \in Pickles : f \in written /\ fs[f] = "complete"

\* C3 as stated: a finished run either wrote all five files, or stopped at
\* its first failure having written no output of the failing stage or of a
\* later one.
C3_NothingAtOrAfterFailure ==
    Terminal =>
        \/ failedAt = None /\ AllFiveWritten
        \/ /\ failedAt # None
           /\ \A f \in written : StageOfFile(f) < StageNo(failedAt)

\* C3 amended: a finished run either wrote all five files, or stopped at its
\* first failure having written no output of a later stage; the outputs of
\* the earlier stages are whole, the failing stage's own file may be there
\* in part.
C3_NothingAfterFailure ==
    Terminal =>
        \/ /\ pc = "done"
           /\ failedAt = None
           /\ AllFiveWritten
        \/ /\ pc = "aborted"
           /\ failedAt # None
           /\ \A f \in written : StageOfFile(f) <= StageNo(failedAt)
           /\ \A f \in written \cap Pickles :
                 StageOfFile(f) < StageNo(failedAt) => fs[f] = "complete"
           /\ \A f \in Pickles :
                 (StageOfFile(f) < StageNo(failedAt)) => f \in written

\* A run that failed while dumping movies.p: meta.p and users.p are whole,
\* movies.p is partial, data.p was not touched.
C3_Witness ==
    /\ pc = "aborted"
    /\ failedAt = "movies.p"
    /\ written = {"meta.p", "users.p", "movies.p"}
    /\ fs["movies.p"] = "partial"
    /\ fs["data.p"] = "complete"
    /\ run >= 2

(***************************************************************************)
(*                 Strings, tables and arrays of load_data                 *)
(*                                                                         *)
(* A byte string is a sequence of one-character strings.  A DataFrame is   *)
(* [columns, rows]: rows is a sequence of functions from column name to    *)
(* value, and row i carries the index label i - 1.  A numpy array is       *)
(* [ndim, data]: ndim = 1 with data a sequence of numbers, or ndim = 0     *)
(* with data the single object the array wraps.  A byte string held in a  *)
(* cell that may also hold an array is [bytes]: the record's fields tell   *)
(* the two kinds of object apart.                                          *)
(***************************************************************************)
TitleLen == 15
NaN == "NaN"

Min(a, b) == IF a < b THEN a ELSE b

Range(f) == {f[x] : x \in DOMAIN f}

\* The tables of 1 to n rows drawn from S: every data file of the archive
\* holds at least one record.
TablesUpTo(S, n) == UNION {[1..k -> S] : k \in 1..n}

RECURSIVE Concat(_)
Concat(ss) == IF ss = <<>> THEN <<>> ELSE Head(ss) \o Concat(Tail(ss))

\* bytes.split(sep) for a one-byte separator: empty tokens are kept.
RECURSIVE SplitOn(_, _)
SplitOn(s, sep) ==
    IF \E i \in 1..Len(s) : s[i] = sep
    THEN LET i == CHOOSE k \in 1..Len(s) :
                     s[k] = sep /\ \A j \in 1..(k - 1) : s[j] # sep
         IN <<SubSeq(s, 1, i - 1)>> \o SplitOn(SubSeq(s, i + 1, Len(s)), sep)
    ELSE <<s>>

\* The vertical tab, byte 0x0b, which has no escape in a TLA+ string.
VT == "\\x0b"

\* The ASCII whitespace bytes: blank, \t, \n, \r, \x0b, \x0c.
Whitespace == {" ", "\t", "\n", "\r", VT, "\f"}

\* bytes.split(): runs of ASCII whitespace separate, empty tokens are dropped.
RECURSIVE SplitWhitespace(_)
SplitWhitespace(s) ==
    IF s = <<>> THEN <<>>
    ELSE IF s[1] \in Whitespace THEN SplitWhitespace(Tail(s))
    ELSE LET j == IF \E k \in 1..Len(s) : s[k] \in Whitespace
                  THEN CHOOSE k \in 1..Len(s) :
                           s[k] \in Whitespace
                             /\ \A m \in 1..(k - 1) : s[m] \notin Whitespace
                  ELSE Len(s) + 1
         IN <<SubSeq(s, 1, j - 1)>> \o SplitWhitespace(SubSeq(s, j, Len(s)))

Digits == {"0", "1", "2", "3", "4", "5", "6", "7", "8", "9"}

\* Where "$" matches: at the end of the string, and just before a newline
\* that ends the string.  The value is the position of the last character
\* the pattern has to consume.
YearEnd(x) ==
    IF Len(x) > 0 /\ x[Len(x)] = "\n" THEN Len(x) - 1 ELSE Len(x)

\* line 126: re.compile(b'^(.*)\((\d+)\)$').match(x): the positions of the
\* "(" that opens a final "(digits)"; at most one.  "." matches any byte but
\* the newline, so group 1 holds none.
YearOpens(x) ==
    {i \in 1..(YearEnd(x) - 2) :
        /\ x[i] = "("
        /\ x[YearEnd(x)] = ")"
        /\ \A k \in (i + 1)..(YearEnd(x) - 1) : x[k] \in Digits
        /\ \A k \in 1..(i - 1) : x[k] # "\n"}

YearMatches(x) == YearOpens(x) # {}

\* line 128: pattern.match(x).group(1)
TitleWithoutYear(x) == SubSeq(x, 1, (CHOOSE i \in YearOpens(x) : TRUE) - 1)

\* {val: ii for ii, val in enumerate(S, start)}: a set is enumerated in an
\* order the language does not fix, so any numbering start, start+1, ... of
\* its elements may come out.
Enumerations(S, start) ==
    {f \in [S -> start..(start + Cardinality(S) - 1)] :
        \A a, b \in S : f[a] = f[b] => a = b}

\* Series.map(dict): a value that is no key of the dict maps to NaN.
MapValue(dict, v) == IF v \in DOMAIN dict THEN dict[v] ELSE NaN

WithColumn(row, c, v) ==
    [x \in DOMAIN row \cup {c} |-> IF x = c THEN v ELSE row[x]]

\* DataFrame.filter(regex=...) with an alternation of column names, and
\* column selection: the columns kept are those named.
FilterColumns(df, keep) ==
    [columns |-> df.columns \cap keep,
     rows |-> [i \in 1..Len(df.rows) |->
                  [c \in df.columns \cap keep |-> df.rows[i][c]]]]

AddColumn(df, c, values) ==
    [columns |-> df.columns \cup {c},
     rows |-> [i \in 1..Len(df.rows) |-> WithColumn(df.rows[i], c, values[i])]]

Column(df, c) == [i \in 1..Len(df.rows) |-> df.rows[i][c]]

\* line 115
gender_map == ("F" :> 0 @@ "M" :> 1)

\* GenderIndex numbered from the gender values met in the data, as AgeIndex is.
EncodeGenderObserved(df) ==
    LET seen == Range(Column(df, "Gender"))
        observed == [g \in seen |-> IF g = "M" /\ "F" \in seen THEN 1 ELSE 0]
    IN AddColumn(df, "GenderIndex",
                 [i \in 1..Len(df.rows) |-> MapValue(observed, df.rows[i]["Gender"])])

\* line 116: users['GenderIndex'] = users['Gender'].map(gender_map)
EncodeGender(df) ==
    AddColumn(df, "GenderIndex",
              [i \in 1..Len(df.rows) |-> MapValue(gender_map, df.rows[i]["Gender"])])

\* line 119: users['AgeIndex'] = users['Age'].map(age_map)
EncodeAge(df, amap) ==
    AddColumn(df, "AgeIndex",
              [i \in 1..Len(df.rows) |-> MapValue(amap, df.rows[i]["Age"])])

\* A multi-hot vector that sets the bit of the first genre only.
MultiHotFirstOnly(gmap, genres) ==
    LET genre_int_list == [k \in 1..1 |-> gmap[SplitOn(genres, "|")[k]]]
    IN [ndim |-> 1,
        data |-> [i \in 1..Cardinality(DOMAIN gmap) |->
                     IF (i - 1) \in Range(genre_int_list) THEN 1 ELSE 0]]

\* lines 75-79: genres_multi_hot(genre_int_map).helper(genres).  Position p
\* of the numpy vector is data[p + 1].
genres_multi_hot(gmap, genres) ==
    LET toks == SplitOn(genres, "|")
        genre_int_list == [k \in 1..Len(toks) |-> gmap[toks[k]]]
    IN [ndim |-> 1,
        data |-> [i \in 1..Cardinality(DOMAIN gmap) |->
                     IF (i - 1) \in Range(genre_int_list) THEN 1 ELSE 0]]

\* lines 91-98: title_encode(word_int_map).helper(title).  With more than 15
\* words the result is np.array(title[:15]): a 0-dimensional array holding
\* the first 15 bytes of the title.
title_encode(wmap, title) ==
    LET toks == SplitWhitespace(title)
        title_words == [k \in 1..Len(toks) |-> wmap[toks[k]]]
    IN IF Len(title_words) > TitleLen
       THEN [ndim |-> 0, data |-> SubSeq(title, 1, Min(TitleLen, Len(title)))]
       ELSE [ndim |-> 1,
             data |-> [i \in 1..TitleLen |->
                          IF i <= Len(title_words) THEN title_words[i] ELSE 0]]

\* line 143 with enumerate(word_set): the vocabulary numbered from 0.
WordEnumerationsFromZero(word_set) == Enumerations(word_set, 0)

\* line 143: enumerate(word_set, start=1)
WordEnumerations(word_set) == Enumerations(word_set, 1)

\* lines 130-132 and 139-141: the union of the rows' token lists.
TokenSet(lists) == UNION {Range(lists[i]) : i \in 1..Len(lists)}

\* A merge that pairs every left row with every right row.
MergeCross(left, right) ==
    LET pairs == [i \in 1..Len(left.rows) |->
                     [j \in 1..Len(right.rows) |->
                         [c \in left.columns \cup right.columns |->
                             IF c \in left.columns THEN left.rows[i][c]
                             ELSE right.rows[j][c]]]]
    IN [columns |-> left.columns \cup right.columns, rows |-> Concat(pairs)]

\* pd.merge(left, right): an inner join on the columns the two frames share,
\* in the row order of the pandas releases that accept the bytes separators
\* of lines 111-150: the rows come grouped by join key, the keys in the order
\* of their first appearance on the left; inside a group each left row, in
\* order, is paired with each right row of that key, in order.
Merge(left, right) ==
    LET common == left.columns \cap right.columns
        key(df, i) == [c \in common |-> df.rows[i][c]]
        positions == [i \in 1..Len(left.rows) |-> i]
        firsts == SelectSeq(positions,
                            LAMBDA i : \A j \in 1..(i - 1) : key(left, j) # key(left, i))
        group(f) == SelectSeq(positions, LAMBDA i : key(left, i) = key(left, f))
        match(i) == SelectSeq([j \in 1..Len(right.rows) |-> j],
                              LAMBDA j : key(right, j) = key(left, i))
        pairs(i) == [k \in 1..Len(match(i)) |->
                        [c \in left.columns \cup right.columns |->
                            IF c \in left.columns THEN left.rows[i][c]
                            ELSE right.rows[match(i)[k]][c]]]
        groups == [g \in 1..Len(firsts) |->
                      Concat([m \in 1..Len(group(firsts[g])) |->
                                 pairs(group(firsts[g])[m])])]
    IN [columns |-> left.columns \cup right.columns, rows |-> Concat(groups)]

\* train_test_split(test_size=0.2): n_test = ceil(0.2 * n)
TestCount(n) == (n + 4) \div 5

\* The rows of df with the index labels in idx, keyed by label.
TakeRows(df, idx) == [i \in idx |-> df.rows[i + 1]]

\* What train_test_split(features, targets, ...) returns for the test labels
\* T: both frames are cut at the same labels.  The order of the rows inside
\* a part is not modelled.
SplitParts(X, y, T) ==
    LET all == 0..(Len(X.rows) - 1) IN
    [train_X |-> TakeRows(X, all \ T), test_X |-> TakeRows(X, T),
     train_y |-> TakeRows(y, all \ T), test_y |-> TakeRows(y, T)]

\* The tuple dumped in the order train_test_split returns its parts.
DumpTupleReturnOrder(p) == <<p.train_X, p.test_X, p.train_y, p.test_y>>

\* line 177: pickle.dump((train_X, train_y, test_X, test_y), data)
DumpTuple(p) == <<p.train_X, p.train_y, p.test_X, p.test_y>>

(***************************************************************************)
(*        load_data (lines 103-159), the split and data.p (175-177)        *)
(***************************************************************************)
UserColumns == {"UserID", "Gender", "Age", "JobID", "Zip-code"}
MovieColumns == {"MovieID", "Title", "Genres"}
RatingColumns == {"UserID", "MovieID", "ratings", "timestamps"}

\* lines 109-119: the users table, GenderIndex, age_map and AgeIndex.
ReadUsers ==
    /\ lpc = "users"
    /\ LET kept == FilterColumns(archive.users, {"UserID", "Gender", "Age", "JobID"})
           withGender == EncodeGender(kept)
       IN \E amap \in Enumerations(Range(Column(kept, "Age")), 0) :
             /\ age_map' = amap
             /\ users' = EncodeAge(withGender, amap)
    /\ lpc' = "movies"
    /\ UNCHANGED <<archive, movies, ratings, genre_int_map, word_int_map,
                   data, features, targets, parts, data_p, mainVars, hookVars>>

\* lines 136, 145: Series.map(f) stores f's result for each cell, except
\* that a 0-dimensional array is unboxed: the cell holds the object the
\* array wraps (pandas' map_infer calls .item() on it).
IsArray(v) == "ndim" \in DOMAIN v

Unbox(v) == IF v.ndim = 0 THEN [bytes |-> v.data] ELSE v

SeriesMap(results) == [i \in DOMAIN results |-> Unbox(results[i])]

\* lines 122-145: the movies table, the two vocabularies and the encodings.
\* A title without a final "(digits)" makes line 128 raise.
ReadMovies ==
    /\ lpc = "movies"
    /\ LET raw == archive.movies
           n == Len(raw.rows)
       IN \/ /\ \E i \in 1..n : ~YearMatches(raw.rows[i]["Title"])
             /\ lpc' = "failed:movies"
             /\ UNCHANGED <<movies, genre_int_map, word_int_map>>
          \/ /\ \A i \in 1..n : YearMatches(raw.rows[i]["Title"])
             /\ LET stripped == [i \in 1..n |-> TitleWithoutYear(raw.rows[i]["Title"])]
                    genre_set == TokenSet([i \in 1..n |-> SplitOn(raw.rows[i]["Genres"], "|")])
                    word_set == TokenSet([i \in 1..n |-> SplitWhitespace(stripped[i])])
                IN \E gmap \in Enumerations(genre_set, 0), wmap \in WordEnumerations(word_set) :
                      /\ genre_int_map' = gmap
                      /\ word_int_map' = wmap
                      /\ movies' =
                            AddColumn(
                              AddColumn(
                                AddColumn(raw, "TitleWithoutYear", stripped),
                                "GenresMultiHot",
                                SeriesMap([i \in 1..n |->
                                    genres_multi_hot(gmap, raw.rows[i]["Genres"])])),
                              "TitleIndex",
                              SeriesMap([i \in 1..n |-> title_encode(wmap, stripped[i])]))
             /\ lpc' = "ratings"
    /\ UNCHANGED <<archive, users, ratings, age_map, data, features, targets,
                   parts, data_p, mainVars, hookVars>>

\* lines 148-151: the ratings table without its timestamps.
ReadRatings ==
    /\ lpc = "ratings"
    /\ ratings' = FilterColumns(archive.ratings, {"UserID", "MovieID", "ratings"})
    /\ lpc' = "merge"
    /\ UNCHANGED <<archive, users, movies, age_map, genre_int_map, word_int_map,
                   data, features, targets, parts, data_p, mainVars, hookVars>>

\* lines 154-159: the two merges, then features and targets.
MergeTables ==
    /\ lpc = "merge"
    /\ LET joined == Merge(Merge(ratings, users), movies) IN
          /\ data' = joined
          /\ features' = FilterColumns(joined, joined.columns \ {"ratings"})
          /\ targets' = FilterColumns(joined, {"ratings"})
    /\ lpc' = "split"
    /\ UNCHANGED <<archive, users, movies, ratings, age_map, genre_int_map,
                   word_int_map, parts, data_p, mainVars, hookVars>>

\* line 175: train_test_split(features, targets, test_size=0.2, random_state=0).
\* n_test = ceil(0.2 n), n_train = n - n_test.  The seeded shuffle is some
\* choice of n_test labels.  An empty train set is a ValueError in the
\* scikit-learn releases from 0.21 on; an earlier release returns an empty
\* train part, with the single row (or no row, for an empty table) as the
\* test part.
Split ==
    /\ lpc = "split"
    /\ LET n == Len(features.rows)
           n_test == TestCount(n)
       IN \/ /\ n - n_test = 0
             /\ lpc' = "failed:split"
             /\ UNCHANGED parts
          \/ /\ \E T \in SUBSET (0..(n - 1)) :
                   /\ Cardinality(T) = n_test
                   /\ parts' = SplitParts(features, targets, T)
             /\ lpc' = "dump"
    /\ UNCHANGED <<archive, users, movies, ratings, age_map, genre_int_map,
                   word_int_map, data, features, targets, data_p, mainVars, hookVars>>

\* lines 176-177: the four parts pickled into data.p.
DumpData ==
    /\ lpc = "dump"
    /\ data_p' = DumpTuple(parts)
    /\ lpc' = "done"
    /\ UNCHANGED <<archive, users, movies, ratings, age_map, genre_int_map,
                   word_int_map, data, features, targets, parts, mainVars, hookVars>>

NextLoad ==
    \/ ReadUsers
    \/ ReadMovies
    \/ ReadRatings
    \/ MergeTables
    \/ Split
    \/ DumpData

(***************************************************************************)
(* Archive contents: the rows users.dat, movies.dat and ratings.dat may     *)
(* hold.  Every table has at least one row.                                *)
(***************************************************************************)
UserRow(id, gender, age) ==
    ("UserID" :> id @@ "Gender" :> gender @@ "Age" :> age @@ "JobID" :> 0
       @@ "Zip-code" :> "z")

MovieRow(id, title, genres) ==
    ("MovieID" :> id @@ "Title" :> title @@ "Genres" :> genres)

RatingRow(u, m, r) ==
    ("UserID" :> u @@ "MovieID" :> m @@ "ratings" :> r @@ "timestamps" :> 0)

Frame(cols, rows) == [columns |-> cols, rows |-> rows]

Year == <<"(", "1", "9", ")">>

\* n words, "a" and "bc" in turn, each followed by a blank.
RECURSIVE TitleText(_)
TitleText(n) ==
    IF n = 0 THEN <<>>
    ELSE TitleText(n - 1) \o (IF n % 2 = 0 THEN <<"b", "c", " ">> ELSE <<"a", " ">>)

\* Titles of no word, of two, and of one word less than TitleLen up to
\* MaxOver words more; one whose words are set apart by blanks, tabs and a
\* carriage return; one without a year.
WordCounts == {0, 2} \cup ((TitleLen - 1)..(TitleLen + MaxOver))

Titles ==
    {TitleText(n) \o Year : n \in WordCounts}
      \cup {<<" ", "\t", "b", "c", "\t", "a", "\r", " ">> \o Year,
            <<"a", " ", "(", "x", ")">>}

\* A repeated genre, an empty token between two pipes, a single genre.
GenreLists ==
    {<<"B", "|", "A", "|", "B">>, <<"A", "|", "|", "B">>, <<"B">>}

PlainTitle == <<"a", " ">> \o Year
PlainGenres == <<"A", "|", "B">>

\* What one movies.dat line may hold besides its key.
MovieContents ==
    {<<t, PlainGenres>> : t \in Titles} \cup {<<PlainTitle, g>> : g \in GenreLists}

UserContents == {"F", "M"} \X {1, 18, 25}

\* Tables whose keys are 1, 2, ... in row order.
KeyedUsers ==
    {[i \in 1..Len(c) |-> UserRow(i, c[i][1], c[i][2])] : c \in TablesUpTo(UserContents, MaxUsers)}

KeyedMovies ==
    {[i \in 1..Len(c) |-> MovieRow(i, c[i][1], c[i][2])] : c \in TablesUpTo(MovieContents, MaxMovies)}

\* Tables whose keys are free: a key may be missing or repeated.
KeyLists == {<<1>>, <<2>>, <<1, 2>>, <<2, 1>>, <<1, 1>>}
FreeUsers ==
    {[i \in 1..Len(k) |-> UserRow(k[i], IF i = 1 THEN "F" ELSE "M", 18)] : k \in KeyLists}
FreeMovies ==
    {[i \in 1..Len(k) |-> MovieRow(k[i], PlainTitle, IF i = 1 THEN PlainGenres ELSE <<"B">>)] :
        k \in KeyLists}
FreeRatings ==
    TablesUpTo({RatingRow(k[1], k[2], k[1] + 2 * k[2]) : k \in {<<1, 1>>, <<1, 2>>, <<2, 1>>}},
             MaxRatings)

FixedUsers == <<UserRow(1, "F", 18), UserRow(2, "M", 25)>>
FixedMovies == <<MovieRow(1, PlainTitle, PlainGenres), MovieRow(2, PlainTitle, PlainGenres)>>
FixedRatings == <<RatingRow(1, 1, 5), RatingRow(1, 2, 3), RatingRow(2, 1, 4)>>

LoadStart ==
    /\ lpc = "users"
    /\ users = None /\ movies = None /\ ratings = None
    /\ age_map = None /\ genre_int_map = None /\ word_int_map = None
    /\ data = None /\ features = None /\ targets = None
    /\ parts = None
    /\ data_p = None

InitUsers ==
    /\ MainIdle /\ HookIdle /\ LoadStart
    /\ \E u \in KeyedUsers :
          archive = [users |-> Frame(UserColumns, u),
                     movies |-> Frame(MovieColumns, FixedMovies),
                     ratings |-> Frame(RatingColumns, FixedRatings)]

InitMovies ==
    /\ MainIdle /\ HookIdle /\ LoadStart
    /\ \E m \in KeyedMovies :
          archive = [users |-> Frame(UserColumns, FixedUsers),
                     movies |-> Frame(MovieColumns, m),
                     ratings |-> Frame(RatingColumns, FixedRatings)]

InitJoin ==
    /\ MainIdle /\ HookIdle /\ LoadStart
    /\ \E u \in FreeUsers, m \in FreeMovies, r \in FreeRatings :
          archive = [users |-> Frame(UserColumns, u),
                     movies |-> Frame(MovieColumns, m),
                     ratings |-> Frame(RatingColumns, r)]

SpecUsers == InitUsers /\ [][NextLoad]_vars
SpecMovies == InitMovies /\ [][NextLoad]_vars
SpecJoin == InitJoin /\ [][NextLoad]_vars

(***************************************************************************)
(*                  Properties of load_data and the split                  *)
(***************************************************************************)
UsersLoaded == lpc \notin {"off", "users"}
MoviesLoaded == lpc \in {"ratings", "merge", "split", "dump", "done", "failed:split"}
Merged == lpc \in {"split", "dump", "done", "failed:split"}
SplitDone == lpc \in {"dump", "done"}

\* The words of a string, stated from positions: a word starts at a
\* character that is no whitespace and is first or follows whitespace, and
\* runs up to the last character before the next whitespace; words are
\* taken from left to right.
WordStarts(s) ==
    {i \in 1..Len(s) : s[i] \notin Whitespace /\ (i = 1 \/ s[i - 1] \in Whitespace)}

WordEnd(s, i) ==
    CHOOSE j \in i..Len(s) :
        /\ \A k \in i..j : s[k] \notin Whitespace
        /\ j = Len(s) \/ s[j + 1] \in Whitespace

WordsOf(s) ==
    LET starts == WordStarts(s) IN
    [k \in 1..Cardinality(starts) |->
        LET i == CHOOSE i \in starts : Cardinality({q \in starts : q < i}) = k - 1
        IN SubSeq(s, i, WordEnd(s, i))]

\* The pipe-split tokens of a string, stated from positions: what lies
\* between two neighbouring separators (the ends of the string included).
PipeTokens(s) ==
    LET cuts == {0, Len(s) + 1} \cup {i \in 1..Len(s) : s[i] = "|"} IN
    {SubSeq(s, a + 1, b - 1) :
        <<a, b>> \in {c \in cuts \X cuts :
                        c[1] < c[2] /\ \A m \in cuts : ~(c[1] < m /\ m < c[2])}}

\* C4: for every movie, whatever the number of words of its year-stripped
\* title, TitleIndex is a vector (a one-dimensional array) of length
\* exactly 15.
C4_TitleIndexHasLength15 ==
    MoviesLoaded =>
        \A i \in 1..Len(movies.rows) :
            /\ IsArray(movies.rows[i]["TitleIndex"])
            /\ movies.rows[i]["TitleIndex"].ndim = 1
            /\ Len(movies.rows[i]["TitleIndex"].data) = TitleLen

\* C5: for every movie, GenresMultiHot is as long as genre_int_map, and its
\* position p holds 1 exactly when p is the index of one of the movie's
\* pipe-split genre tokens, and 0 otherwise.
C5_MultiHotMatchesGenres ==
    MoviesLoaded =>
        \A i \in 1..Len(movies.rows) :
            LET v == movies.rows[i]["GenresMultiHot"]
                toks == PipeTokens(movies.rows[i]["Genres"])
            IN /\ IsArray(v)
               /\ v.ndim = 1
               /\ Len(v.data) = Cardinality(DOMAIN genre_int_map)
               /\ \A p \in 0..(Len(v.data) - 1) :
                     v.data[p + 1] =
                        IF \E t \in toks : genre_int_map[t] = p THEN 1 ELSE 0

\* A corpus of three genres or more with a movie that repeats a genre and
\* whose vector has bits set and bits clear.
C5_Witness ==
    /\ MoviesLoaded
    /\ Cardinality(DOMAIN genre_int_map) >= 3
    /\ \E i \in 1..Len(movies.rows) :
          /\ movies.rows[i]["Genres"] = <<"B", "|", "A", "|", "B">>
          /\ \E p, q \in 1..Len(movies.rows[i]["GenresMultiHot"].data) :
                /\ movies.rows[i]["GenresMultiHot"].data[p] = 1
                /\ movies.rows[i]["GenresMultiHot"].data[q] = 0

\* C9: for every movie whose year-stripped title has k <= 15 words,
\* TitleIndex holds at positions 0..k-1 the vocabulary indices of the words
\* in order, each at least 1, and 0 at positions k..14; no word has index 0.
C9_TitleIndexPadsWithZero ==
    MoviesLoaded =>
        /\ \A w \in DOMAIN word_int_map : word_int_map[w] >= 1
        /\ \A i \in 1..Len(movies.rows) :
              LET words == WordsOf(movies.rows[i]["TitleWithoutYear"])
                  k == Len(words)
                  v == movies.rows[i]["TitleIndex"]
              IN k <= TitleLen =>
                    /\ IsArray(v)
                    /\ v.ndim = 1
                    /\ Len(v.data) = TitleLen
                    /\ \A p \in 0..(k - 1) :
                          /\ v.data[p + 1] = word_int_map[words[p + 1]]
                          /\ v.data[p + 1] >= 1
                    /\ \A p \in k..(TitleLen - 1) : v.data[p + 1] = 0

\* A corpus with a title of exactly 15 words and a title of 2 words.
C9_Witness ==
    /\ MoviesLoaded
    /\ Cardinality(DOMAIN word_int_map) = 2
    /\ \E i, j \in 1..Len(movies.rows) :
          /\ Len(WordsOf(movies.rows[i]["TitleWithoutYear"])) = TitleLen
          /\ Len(WordsOf(movies.rows[j]["TitleWithoutYear"])) = 2
          /\ movies.rows[j]["TitleIndex"].data[3] = 0

\* C6: for every row of the users table, GenderIndex is 0 or 1 and is the
\* fixed mapping F -> 0, M -> 1 of the row's Gender, whichever gender values
\* the table holds.
C6_GenderIndexIsFixedMapping ==
    UsersLoaded =>
        \A i \in 1..Len(users.rows) :
            /\ users.rows[i]["GenderIndex"] \in {0, 1}
            /\ users.rows[i]["Gender"] = "F" => users.rows[i]["GenderIndex"] = 0
            /\ users.rows[i]["Gender"] = "M" => users.rows[i]["GenderIndex"] = 1

\* A users table in which every user is M: a numbering drawn from the data
\* would give M the index 0.
C6_Witness ==
    /\ UsersLoaded
    /\ Len(users.rows) >= 2
    /\ \A i \in 1..Len(users.rows) :
          users.rows[i]["Gender"] = "M" /\ users.rows[i]["GenderIndex"] = 1

\* The rows of a table that carry key value k in column c.
RowsWithKey(df, c, k) == {j \in 1..Len(df.rows) : df.rows[j][c] = k}

\* Row r restricted to the columns of table df equals row x of df.
Carries(r, df, x) == \A c \in df.columns : r[c] = x[c]

RECURSIVE SumTo(_, _)
SumTo(f, n) == IF n = 0 THEN 0 ELSE f[n] + SumTo(f, n - 1)

\* Every rating's user key and movie key names exactly one row of its table.
KeysResolve ==
    \A i \in 1..Len(ratings.rows) :
        /\ Cardinality(RowsWithKey(users, "UserID", ratings.rows[i]["UserID"])) = 1
        /\ Cardinality(RowsWithKey(movies, "MovieID", ratings.rows[i]["MovieID"])) = 1

\* The joined rows that carry rating row v, and the rating rows equal to v.
JoinedCarrying(v) == {k \in 1..Len(data.rows) : Carries(data.rows[k], ratings, v)}
RatingsEqual(v) == {j \in 1..Len(ratings.rows) : ratings.rows[j] = v}

\* Joined row k carries a rating together with the attributes of a users row
\* and of a movies row (which then bear the rating's keys).
FromSomeMatch(k) ==
    \E i \in 1..Len(ratings.rows), u \in 1..Len(users.rows), m \in 1..Len(movies.rows) :
        /\ Carries(data.rows[k], ratings, ratings.rows[i])
        /\ Carries(data.rows[k], users, users.rows[u])
        /\ Carries(data.rows[k], movies, movies.rows[m])

\* C7 as stated: for every ratings, users and movies table the joined table
\* has as many rows as there are ratings, one for each rating, and each
\* joined row carries its rating with the attributes of the rating's user
\* and movie.
C7_OneRowPerRating ==
    Merged =>
        /\ Len(data.rows) = Len(ratings.rows)
        /\ \A i \in 1..Len(ratings.rows) :
              Cardinality(JoinedCarrying(ratings.rows[i]))
                 = Cardinality(RatingsEqual(ratings.rows[i]))
        /\ \A k \in 1..Len(data.rows) : FromSomeMatch(k)

\* C7 amended: the joined table has one row per rating, matching user row
\* and matching movie row; a rating whose user or movie key names no row is
\* dropped.  When every rating's keys name exactly one user row and one
\* movie row, that is one row per rating (in an order of its own), each
\* carrying its rating with the attributes of the rating's user and movie.
C7_OneRowPerMatch ==
    Merged =>
        /\ Len(data.rows) =
              SumTo([i \in 1..Len(ratings.rows) |->
                        Cardinality(RowsWithKey(users, "UserID", ratings.rows[i]["UserID"]))
                          * Cardinality(RowsWithKey(movies, "MovieID", ratings.rows[i]["MovieID"]))],
                    Len(ratings.rows))
        /\ data.columns = ratings.columns \cup users.columns \cup movies.columns
        /\ \A k \in 1..Len(data.rows) : FromSomeMatch(k)
        /\ KeysResolve =>
              /\ Len(data.rows) = Len(ratings.rows)
              /\ \A i \in 1..Len(ratings.rows) :
                    Cardinality(JoinedCarrying(ratings.rows[i]))
                       = Cardinality(RatingsEqual(ratings.rows[i]))

\* Three ratings by two users of two movies, every key naming one row; the
\* join brings the two ratings of movie 1 together, so its second row is
\* the third rating.
C7_Witness ==
    /\ Merged
    /\ KeysResolve
    /\ Len(users.rows) = 2
    /\ Len(movies.rows) = 2
    /\ Len(ratings.rows) = 3
    /\ Len(data.rows) = 3
    /\ ratings.rows[2] # ratings.rows[3]
    /\ Carries(data.rows[2], ratings, ratings.rows[3])
    /\ Carries(data.rows[3], ratings, ratings.rows[2])

\* C8: after the split of a joined table of n rows, train and test are
\* disjoint, their sizes sum to n, features and labels are cut at the same
\* rows, the test share is 0.2 of n up to integer rounding, and data.p holds
\* (train features, train labels, test features, test labels).
C8_SplitPartitionsRows ==
    /\ SplitDone =>
          LET n == Len(features.rows)
              tr == DOMAIN parts.train_X
              te == DOMAIN parts.test_X
          IN /\ tr \cap te = {}
             /\ tr \cup te = 0..(n - 1)
             /\ Cardinality(tr) + Cardinality(te) = n
             /\ DOMAIN parts.train_y = tr
             /\ DOMAIN parts.test_y = te
             /\ \A i \in tr : parts.train_X[i] = features.rows[i + 1]
                                /\ parts.train_y[i] = targets.rows[i + 1]
             /\ \A i \in te : parts.test_X[i] = features.rows[i + 1]
                                /\ parts.test_y[i] = targets.rows[i + 1]
             /\ 5 * Cardinality(te) - n < 5
             /\ n - 5 * Cardinality(te) < 5
    /\ lpc = "done" =>
          /\ Len(data_p) = 4
          /\ DOMAIN data_p[1] = DOMAIN parts.train_X /\ DOMAIN data_p[2] = DOMAIN parts.train_X
          /\ DOMAIN data_p[3] = DOMAIN parts.test_X /\ DOMAIN data_p[4] = DOMAIN parts.test_X
          /\ \A i \in DOMAIN parts.train_X :
                data_p[1][i] = features.rows[i + 1] /\ data_p[2][i] = targets.rows[i + 1]
          /\ \A i \in DOMAIN parts.test_X :
                data_p[3][i] = features.rows[i + 1] /\ data_p[4][i] = targets.rows[i + 1]

\* A joined table of six rows or more, split into at least two test rows and
\* the rest, and dumped.
C8_Witness ==
    /\ lpc = "done"
    /\ Len(features.rows) >= 6
    /\ Cardinality(DOMAIN data_p[3]) >= 2
    /\ Cardinality(DOMAIN data_p[1]) >= 4

=============================================================================
